---- MODULE Spec2Model ----
(***************************************************************************)
(* Shrimp THC counter (src/app.py): the conversion pipeline of the         *)
(* analysis tab.  A YOLO detection result is counted (len of the boxes),   *)
(* converted into a concentration by calculate_thc and classified by       *)
(* get_recommendation.                                                     *)
(*                                                                         *)
(* The arithmetic of calculate_thc and the comparisons of                  *)
(* get_recommendation are Python float (IEEE-754 binary64) operations.     *)
(* They are modelled bit-exactly: a float is a sign and a magnitude in     *)
(* units of 2^-FracBits, the magnitude an arbitrary-precision natural      *)
(* number, and every product is rounded to 53 significant bits, ties to    *)
(* even, as the hardware does.                                             *)
(***************************************************************************)
EXTENDS Integers, Sequences, FiniteSets, TLC

(***************************************************************************)
(* Arbitrary-precision naturals: little-endian sequences of base-10^4      *)
(* limbs without a leading (most significant) zero limb; <<>> is 0.        *)
(* Python's ints are unbounded and a binary64 significand has 53 bits.     *)
(***************************************************************************)
LimbBase == 10 ^ 4

RECURSIVE BigNorm(_)
BigNorm(a) ==
    IF a = <<>> THEN <<>>
    ELSE IF a[Len(a)] = 0 THEN BigNorm(SubSeq(a, 1, Len(a) - 1))
    ELSE a

RECURSIVE BigOfNat(_)
BigOfNat(n) ==
    IF n = 0 THEN <<>>
    ELSE <<n % LimbBase>> \o BigOfNat(n \div LimbBase)

\* a * k + carry, for a small natural k (k * LimbBase fits a machine int)
RECURSIVE BigMulCarry(_, _, _)
BigMulCarry(a, k, carry) ==
    IF a = <<>> THEN BigOfNat(carry)
    ELSE LET t == Head(a) * k + carry
         IN  <<t % LimbBase>> \o BigMulCarry(Tail(a), k, t \div LimbBase)

BigMulSmall(a, k) == BigNorm(BigMulCarry(a, k, 0))

BigAddSmall(a, k) == BigNorm(BigMulCarry(a, 1, k))

\* floor(a / k) for a small positive k: long division from the top limb
RECURSIVE BigDivRem(_, _, _, _)
BigDivRem(a, k, i, rem) ==
    IF i = 0 THEN <<>>
    ELSE LET t == rem * LimbBase + a[i]
         IN  BigDivRem(a, k, i - 1, t % k) \o <<t \div k>>

BigDivSmall(a, k) == BigNorm(BigDivRem(a, k, Len(a), 0))

\* a < b, from the most significant limb down
RECURSIVE BigLessFrom(_, _, _)
BigLessFrom(a, b, i) ==
    IF i = 0 THEN FALSE
    ELSE IF a[i] # b[i] THEN a[i] < b[i]
    ELSE BigLessFrom(a, b, i - 1)

BigLess(a, b) ==
    IF Len(a) # Len(b) THEN Len(a) < Len(b)
    ELSE BigLessFrom(a, b, Len(a))

BigLeq(a, b) == ~BigLess(b, a)

\* general sum, limb by limb with carry
RECURSIVE BigAddCarry(_, _, _)
BigAddCarry(a, b, carry) ==
    IF a = <<>> THEN BigMulCarry(b, 1, carry)
    ELSE IF b = <<>> THEN BigMulCarry(a, 1, carry)
    ELSE LET t == Head(a) + Head(b) + carry
         IN  <<t % LimbBase>> \o BigAddCarry(Tail(a), Tail(b), t \div LimbBase)

BigAdd(a, b) == BigNorm(BigAddCarry(a, b, 0))

\* a * 2^s and floor(a / 2^s), in steps of at most 13 bits
Pow2Small(s) == 2 ^ s

RECURSIVE BigShiftLeft(_, _)
BigShiftLeft(a, s) ==
    IF s = 0 THEN a
    ELSE LET c == IF s > 13 THEN 13 ELSE s
         IN  BigShiftLeft(BigMulSmall(a, Pow2Small(c)), s - c)

RECURSIVE BigShiftRight(_, _)
BigShiftRight(a, s) ==
    IF s = 0 THEN a
    ELSE LET c == IF s > 13 THEN 13 ELSE s
         IN  BigShiftRight(BigDivSmall(a, Pow2Small(c)), s - c)

\* number of significant bits of a
RECURSIVE BigBitLen(_)
BigBitLen(a) ==
    IF a = <<>> THEN 0
    ELSE IF Len(a) > 1 THEN 13 + BigBitLen(BigShiftRight(a, 13))
    ELSE 1 + BigBitLen(BigDivSmall(a, 2))

(***************************************************************************)
(* Python floats.  value = sign * mag * 2^-FracBits.                       *)
(***************************************************************************)
\* binary64: 53 significant bits
MantBits == 53

\* 71.42857142857 lies in [2^6, 2^7), so its unit in the last place is
\* 2^(6-52); every float the pipeline computes is a multiple of it
FracBits == 46

\* round a magnitude to MantBits significant bits, ties to even
RoundToDouble(n) ==
    LET s == BigBitLen(n) - MantBits
    IN  IF s <= 0 THEN n
        ELSE LET q    == BigShiftRight(n, s)
                 twon == BigMulSmall(n, 2)
                 mid  == BigShiftLeft(BigAddSmall(BigMulSmall(q, 2), 1), s)
                 up   == \/ BigLess(mid, twon)
                         \/ (mid = twon /\ q[1] % 2 = 1)
             IN  BigShiftLeft(IF up THEN BigAddSmall(q, 1) ELSE q, s)

Sgn(k) == IF k < 0 THEN -1 ELSE 1

Abs(k) == IF k < 0 THEN -k ELSE k

\* float(k) for an int k (exact: |k| < 2^53 here)
FloatOfInt(k) == [sign |-> Sgn(k), mag |-> BigShiftLeft(BigOfNat(Abs(k)), FracBits)]

\* the float product x * float(k): the exact product, rounded once
FloatMulInt(x, k) ==
    [sign |-> x.sign * Sgn(k), mag |-> RoundToDouble(BigMulSmall(x.mag, Abs(k)))]

\* x < y and x <= y on floats (+0.0 and -0.0 compare equal)
FloatLess(x, y) ==
    IF x.sign = 1 /\ y.sign = 1 THEN BigLess(x.mag, y.mag)
    ELSE IF x.sign = -1 /\ y.sign = -1 THEN BigLess(y.mag, x.mag)
    ELSE IF x.sign = -1 THEN x.mag # <<>> \/ y.mag # <<>>
    ELSE FALSE

FloatLeq(x, y) == ~FloatLess(y, x)

(***************************************************************************)
(* f"{x:.2e}": three significant decimal digits of the exact binary value, *)
(* rounded half to even, and the decimal exponent.  The text d.dde+XX is   *)
(* the record [sign, digits |-> ddd, exp |-> XX].                          *)
(***************************************************************************)
\* the least e >= lo with n < 1000 * d * 10^(e - lo), and that d * 10^(e - lo)
RECURSIVE SciScale(_, _, _)
SciScale(n, d, e) ==
    IF BigLess(n, BigMulSmall(d, 1000)) THEN [d |-> d, e |-> e]
    ELSE SciScale(n, BigMulSmall(d, 10), e + 1)

\* the largest q in lo..hi with q * d <= n
RECURSIVE SciQuotient(_, _, _, _)
SciQuotient(n, d, lo, hi) ==
    IF lo = hi THEN lo
    ELSE LET mid == (lo + hi + 1) \div 2
         IN  IF BigLeq(BigMulSmall(d, mid), n) THEN SciQuotient(n, d, mid, hi)
             ELSE SciQuotient(n, d, lo, mid - 1)

FormatSci2(x) ==
    IF x.mag = <<>> THEN [sign |-> x.sign, digits |-> 0, exp |-> 0]
    ELSE LET n  == BigMulSmall(BigMulSmall(BigMulSmall(BigMulSmall(
                       x.mag, 10 ^ 4), 10 ^ 4), 10 ^ 4), 10 ^ 4)
             sc == SciScale(n, BigShiftLeft(<<1>>, FracBits), 0 - 14)
             q  == SciQuotient(n, sc.d, 100, 999)
             twon == BigMulSmall(n, 2)
             half == BigMulSmall(sc.d, 2 * q + 1)
             up == BigLess(half, twon) \/ (half = twon /\ q % 2 = 1)
             r  == IF up THEN q + 1 ELSE q
         IN  IF r = 1000 THEN [sign |-> x.sign, digits |-> 100, exp |-> sc.e + 1]
             ELSE [sign |-> x.sign, digits |-> r, exp |-> sc.e]

\* variant: the untruncated 1 / 0.014 = 71.42857142857143 as the literal
CHAMBER_CONSTANT_untruncated == [sign |-> 1, mag |-> <<3143, 6983, 3388, 5026>>]

\* the literal 71.42857142857: the nearest binary64 is 5026338869833042 * 2^-46
CHAMBER_CONSTANT == [sign |-> 1, mag |-> <<3042, 6983, 3388, 5026>>]

\* the literals 1.0e6 and 1.0e7 (both exact in binary64)
LOW_LIMIT == FloatOfInt(1000000)

MEDIUM_LIMIT == FloatOfInt(10000000)

\* variant: the protocol tab's formula, count x dilution factor x 10^4
calculate_thc_protocol(count, dilution_factor) ==
    LET thc_per_ul == FloatMulInt(FloatOfInt(10000), count * dilution_factor)
        thc_per_ml == FloatMulInt(thc_per_ul, 1000)
    IN  [thc_per_ul |-> thc_per_ul, thc_per_ml |-> thc_per_ml]

(***************************************************************************)
(* calculate_thc(count, dilution_factor): no validation, two products.     *)
(* count * dilution_factor is an int product; the int is converted to      *)
(* float for the product with the literal.                                 *)
(***************************************************************************)
calculate_thc(count, dilution_factor) ==
    LET thc_per_ul == FloatMulInt(CHAMBER_CONSTANT, count * dilution_factor)
        thc_per_ml == FloatMulInt(thc_per_ul, 1000)
    IN  [thc_per_ul |-> thc_per_ul, thc_per_ml |-> thc_per_ml]

(***************************************************************************)
(* get_recommendation(thc_value): two float comparisons, no validation.    *)
(* The three guidance records are written with ASCII stand-ins for the     *)
(* emoji and superscripts of the source strings.                           *)
(***************************************************************************)
low_recommendation ==
    [range   |-> "<1.0x10^6 cells/mL",
     status  |-> "LOW IMMUNITY",
     water   |-> "Monitor parameters that stress shrimp, especially Vibrio counts, ammonia and nitrites.",
     pond    |-> "Central drain flushing and disinfectant application advised.",
     feeding |-> "Immune stimulant feed coating at a minimum rate of 50%."]

medium_recommendation ==
    [range   |-> "1.0x10^6 - 1.0x10^7 cells/mL",
     status  |-> "MODERATE IMMUNITY",
     water   |-> "Monitor parameters that stress shrimp, especially Vibrio counts, ammonia and nitrites.",
     pond    |-> "Central drain flushing and disinfectant application advised.",
     feeding |-> "Immune-enhance feed inclusion in the range of 25 to 50%."]

high_recommendation ==
    [range   |-> ">1.0x10^7 cells/mL",
     status  |-> "GOOD IMMUNITY",
     water   |-> "Maintain regular water monitoring.",
     pond    |-> "Continue with current management.",
     feeding |-> "Continue with existing feeding unless unstable weather is forecasted or disease season is starting."]

\* variant: elif thc_value < 1.0e7 (the upper limit excluded from medium)
get_recommendation_exclusive(thc_value) ==
    IF FloatLess(thc_value, LOW_LIMIT) THEN
        [category |-> "low", recommendation |-> low_recommendation]
    ELSE IF FloatLess(thc_value, MEDIUM_LIMIT) THEN
        [category |-> "medium", recommendation |-> medium_recommendation]
    ELSE
        [category |-> "high", recommendation |-> high_recommendation]

\* variant: the medium branch returns a copy of the low record
get_recommendation_copied(thc_value) ==
    IF FloatLess(thc_value, LOW_LIMIT) THEN
        [category |-> "low", recommendation |-> low_recommendation]
    ELSE IF FloatLeq(thc_value, MEDIUM_LIMIT) THEN
        [category |-> "medium", recommendation |-> low_recommendation]
    ELSE
        [category |-> "high", recommendation |-> high_recommendation]

\* variant: the low and the high branch exchanged
get_recommendation_swapped(thc_value) ==
    IF FloatLess(thc_value, LOW_LIMIT) THEN
        [category |-> "high", recommendation |-> high_recommendation]
    ELSE IF FloatLeq(thc_value, MEDIUM_LIMIT) THEN
        [category |-> "medium", recommendation |-> medium_recommendation]
    ELSE
        [category |-> "low", recommendation |-> low_recommendation]

get_recommendation(thc_value) ==
    IF FloatLess(thc_value, LOW_LIMIT) THEN
        [category |-> "low", recommendation |-> low_recommendation]
    ELSE IF FloatLeq(thc_value, MEDIUM_LIMIT) THEN
        [category |-> "medium", recommendation |-> medium_recommendation]
    ELSE
        [category |-> "high", recommendation |-> high_recommendation]

\* the .status-low / .status-medium / .status-high colours of the style sheet
status_color == [low |-> "#ff6b6b", medium |-> "#ffa500", high |-> "#51cf66"]

\* the reference table of the information tab
thc_ranges ==
    << [range   |-> "<1.0x10^6 cells/mL",
        status  |-> "LOW IMMUNITY",
        color   |-> "#ff6b6b",
        water   |-> "Monitor parameters that stress shrimp, especially Vibrio counts, ammonia and nitrites.",
        pond    |-> "Central drain flushing and disinfectant application advised.",
        feeding |-> "Immune stimulant feed coating at a minimum rate of 50%."],
       [range   |-> "1.0x10^6 - 1.0x10^7 cells/mL",
        status  |-> "MODERATE IMMUNITY",
        color   |-> "#ffa500",
        water   |-> "Monitor parameters that stress shrimp, especially Vibrio counts, ammonia and nitrites.",
        pond    |-> "Central drain flushing and disinfectant application advised.",
        feeding |-> "Immune-enhance feed inclusion in the range of 25 to 50%."],
       [range   |-> ">1.0x10^7 cells/mL",
        status  |-> "GOOD IMMUNITY",
        color   |-> "#51cf66",
        water   |-> "Maintain regular water monitoring.",
        pond    |-> "Continue with current management.",
        feeding |-> "Continue with existing feeding unless unstable weather is forecasted or disease season is starting."] >>

(***************************************************************************)
(* The application.  Streamlit runs the script top to bottom after every   *)
(* interaction; widget values and the st.cache_resource entry outlive a    *)
(* run, everything else is local to the run.  An optional value is <<>>    *)
(* (Python's None, or not yet assigned) or <<v>>.                          *)
(***************************************************************************)
VARIABLES
    model_path,        \* the text input's value
    dilution_factor,   \* the slider's value
    uploaded_image,    \* the file uploader's value: <<>> or <<"image">>
    model_cache,       \* st.cache_resource of load_model: an entry a path
    pc,                \* position of the current script run
    model,             \* <<>> (None) or <<"YOLO">>
    results,           \* <<>> or <<boxes>>, boxes the sequence results[0].boxes
    annotated_image,   \* <<>> or <<number of rectangles drawn>>
    total_hemocytes,   \* <<>> or <<int>>
    thc,               \* <<>> or <<[thc_per_ul, thc_per_ml]>>
    metrics,           \* <<>> or <<values of the three st.metric cards>>
    rec,               \* <<>> or <<[category, recommendation]>>
    results_text,      \* <<>> or <<export record>>
    page,              \* the elements the run has put on the page
    error,             \* <<>> or <<kind of the error the run surfaced>>
    stages,            \* history: the pipeline stages the run has executed
    calc_args,         \* history: <<>> or <<arguments given to calculate_thc>>
    rec_arg,           \* history: <<>> or <<argument given to get_recommendation>>
    ret,               \* direct calls: <<>> or <<record of the latest call>>
    prev               \* direct calls: <<>> or <<record of the call before it>>

widgets == <<model_path, dilution_factor, uploaded_image>>

run_locals == <<model, results, annotated_image, total_hemocytes, thc, metrics,
                rec, results_text, page, error, stages, calc_args, rec_arg>>

app_vars == <<widgets, model_cache, pc, run_locals>>

call_vars == <<ret, prev>>

vars == <<app_vars, call_vars>>

\* the largest number of boxes a detection returns in the model
MaxCount == 150

\* st.sidebar.slider("Dilution Factor", min_value=1, max_value=10, value=1)
SliderMin == 1

SliderMax == 10

SliderDefault == 1

\* variant: min_value=0
SliderValues_from_zero == 0..SliderMax

SliderValues == SliderMin..SliderMax

\* st.sidebar.text_input("YOLO Model Path", value="model.pt"): the default
\* and one other path the user may type
ModelPaths == {"model.pt", "other.pt"}

\* results[0].boxes with n boxes; the coordinates only feed draw_boxes
Boxes(n) == [i \in 1..n |-> "box"]

FreshRun ==
    /\ pc' = "script"
    /\ model' = <<>>
    /\ results' = <<>>
    /\ annotated_image' = <<>>
    /\ total_hemocytes' = <<>>
    /\ thc' = <<>>
    /\ metrics' = <<>>
    /\ rec' = <<>>
    /\ results_text' = <<>>
    /\ page' = {}
    /\ error' = <<>>
    /\ stages' = <<>>
    /\ calc_args' = <<>>
    /\ rec_arg' = <<>>

AppInit ==
    /\ model_path = "model.pt"
    /\ dilution_factor = SliderDefault
    /\ uploaded_image = <<>>
    /\ model_cache = [path \in ModelPaths |-> <<>>]
    /\ pc = "script"
    /\ model = <<>>
    /\ results = <<>>
    /\ annotated_image = <<>>
    /\ total_hemocytes = <<>>
    /\ thc = <<>>
    /\ metrics = <<>>
    /\ rec = <<>>
    /\ results_text = <<>>
    /\ page = {}
    /\ error = <<>>
    /\ stages = <<>>
    /\ calc_args = <<>>
    /\ rec_arg = <<>>

CallInit == ret = <<>> /\ prev = <<>>

Init == AppInit /\ CallInit

\* the user types another model path: the running script is dropped and
\* run again
EditModelPath ==
    /\ \E path \in ModelPaths : path # model_path /\ model_path' = path
    /\ FreshRun
    /\ UNCHANGED <<dilution_factor, uploaded_image, model_cache, call_vars>>

\* the user moves the slider
MoveSlider ==
    /\ \E d \in SliderValues : d # dilution_factor /\ dilution_factor' = d
    /\ FreshRun
    /\ UNCHANGED <<model_path, uploaded_image, model_cache, call_vars>>

\* the user uploads an image (or replaces the uploaded one)
UploadImage ==
    /\ uploaded_image' = <<"image">>
    /\ FreshRun
    /\ UNCHANGED <<model_path, dilution_factor, model_cache, call_vars>>

\* the user removes the uploaded image
RemoveImage ==
    /\ uploaded_image # <<>>
    /\ uploaded_image' = <<>>
    /\ FreshRun
    /\ UNCHANGED <<model_path, dilution_factor, model_cache, call_vars>>

\* if uploaded_image is not None: ... (nothing else in the analysis tab)
CheckUpload ==
    /\ pc = "script"
    /\ pc' = IF uploaded_image = <<>> THEN "done" ELSE "load_model"
    /\ UNCHANGED <<widgets, model_cache, run_locals, call_vars>>

\* model = load_model(model_path), first call for the path: YOLO(model_path)
\* returns
LoadModelOk ==
    /\ pc = "load_model"
    /\ model_cache[model_path] = <<>>
    /\ model_cache' = [model_cache EXCEPT
                         ![model_path] = <<[value |-> <<"YOLO">>, elements |-> {}]>>]
    /\ model' = <<"YOLO">>
    /\ pc' = "if_model"
    /\ UNCHANGED <<widgets, results, annotated_image, total_hemocytes, thc, metrics,
                   rec, results_text, page, error, stages, calc_args, rec_arg,
                   call_vars>>

\* first call for the path, YOLO(model_path) raises: st.error(...) and None
\* is returned; st.cache_resource stores the None together with the element
LoadModelFail ==
    /\ pc = "load_model"
    /\ model_cache[model_path] = <<>>
    /\ model_cache' = [model_cache EXCEPT
                         ![model_path] = <<[value |-> <<>>, elements |-> {"error"}]>>]
    /\ model' = <<>>
    /\ page' = page \cup {"error"}
    /\ error' = <<"ModelLoadError">>
    /\ pc' = "if_model"
    /\ UNCHANGED <<widgets, results, annotated_image, total_hemocytes, thc, metrics,
                   rec, results_text, stages, calc_args, rec_arg, call_vars>>

\* later calls: the cached value is returned and its elements are replayed
LoadModelCached ==
    /\ pc = "load_model"
    /\ model_cache[model_path] # <<>>
    /\ model' = model_cache[model_path][1].value
    /\ page' = page \cup model_cache[model_path][1].elements
    /\ error' = IF "error" \in model_cache[model_path][1].elements
                THEN <<"ModelLoadError">> ELSE error
    /\ pc' = "if_model"
    /\ UNCHANGED <<widgets, model_cache, results, annotated_image, total_hemocytes,
                   thc, metrics, rec, results_text, stages, calc_args, rec_arg,
                   call_vars>>

\* if model is not None: ... (nothing else)
CheckModel ==
    /\ pc = "if_model"
    /\ pc' = IF model = <<>> THEN "done" ELSE "run_inference"
    /\ UNCHANGED <<widgets, model_cache, run_locals, call_vars>>

\* results = run_inference(image_array, model): the model returns n boxes
RunInferenceOk ==
    /\ pc = "run_inference"
    /\ \E n \in 0..MaxCount : results' = <<Boxes(n)>>
    /\ stages' = Append(stages, "detector")
    /\ pc' = "draw_boxes"
    /\ UNCHANGED <<widgets, model_cache, model, annotated_image, total_hemocytes,
                   thc, metrics, rec, results_text, page, error, calc_args, rec_arg, call_vars>>

\* variant: the exception is caught and an empty detection stands in for it
RunInferenceFallback ==
    /\ pc = "run_inference"
    /\ error' = <<"InferenceError">>
    /\ page' = page \cup {"exception"}
    /\ results' = <<Boxes(0)>>
    /\ stages' = Append(stages, "detector")
    /\ pc' = "draw_boxes"
    /\ UNCHANGED <<widgets, model_cache, model, annotated_image,
                   total_hemocytes, thc, metrics, rec, results_text, calc_args, rec_arg,
                   call_vars>>

\* model(image) raises: nothing catches it, the script run ends with the
\* exception shown on the page
RunInferenceRaises ==
    /\ pc = "run_inference"
    /\ error' = <<"InferenceError">>
    /\ page' = page \cup {"exception"}
    /\ stages' = Append(stages, "detector")
    /\ pc' = "done"
    /\ UNCHANGED <<widgets, model_cache, model, results, annotated_image,
                   total_hemocytes, thc, metrics, rec, results_text, calc_args, rec_arg,
                   call_vars>>

\* annotated_image = draw_boxes(image_array, results): one rectangle a box
DrawBoxes ==
    /\ pc = "draw_boxes"
    /\ annotated_image' = <<Len(results[1])>>
    /\ pc' = "count"
    /\ UNCHANGED <<widgets, model_cache, model, results, total_hemocytes, thc, metrics, rec,
                   results_text, page, error, stages, calc_args, rec_arg, call_vars>>

\* total_hemocytes = len(results[0].boxes)
CountDetections ==
    /\ pc = "count"
    /\ total_hemocytes' = <<Len(results[1])>>
    /\ stages' = Append(stages, "count")
    /\ pc' = "calculate_thc"
    /\ UNCHANGED <<widgets, model_cache, model, results, annotated_image, thc, metrics, rec,
                   results_text, page, error, calc_args, rec_arg, call_vars>>

\* thc_per_ul, thc_per_ml = calculate_thc(total_hemocytes, dilution_factor),
\* then the three st.metric cards
CalculateTHC ==
    /\ pc = "calculate_thc"
    /\ calc_args' = <<[count |-> total_hemocytes[1], dilution_factor |-> dilution_factor]>>
    /\ thc' = <<calculate_thc(total_hemocytes[1], dilution_factor)>>
    /\ metrics' =
         <<[hemocytes  |-> total_hemocytes[1],
            thc_per_ul |-> FormatSci2(thc'[1].thc_per_ul),
            thc_per_ml |-> FormatSci2(thc'[1].thc_per_ml)]>>
    /\ page' = page \cup {"metrics"}
    /\ stages' = Append(stages, "calculator")
    /\ pc' = "get_recommendation"
    /\ UNCHANGED <<widgets, model_cache, model, results, annotated_image,
                   total_hemocytes, rec, results_text, error, rec_arg, call_vars>>

\* variant: get_recommendation(thc_per_ul)
RecommendationInput_per_ul == thc[1].thc_per_ul

\* the value the analysis tab hands to get_recommendation
RecommendationInput == thc[1].thc_per_ml

\* category, recommendation = get_recommendation(thc_per_ml), then the two
\* images and the three recommendation cards
GetRecommendation ==
    /\ pc = "get_recommendation"
    /\ rec_arg' = <<RecommendationInput>>
    /\ rec' = <<get_recommendation(RecommendationInput)>>
    /\ page' = page \cup {"images", "recommendation"}
    /\ stages' = Append(stages, "classifier")
    /\ pc' = "export"
    /\ UNCHANGED <<widgets, model_cache, model, results, annotated_image,
                   total_hemocytes, thc, metrics, results_text, error, calc_args, call_vars>>

\* results_text = f"""...""" and the download button.  The record holds the
\* fields of the text in its order; the timestamp is left out.
ExportResults ==
    /\ pc = "export"
    /\ results_text' =
         <<[dilution_factor |-> dilution_factor,
            total_hemocytes |-> total_hemocytes[1],
            thc_per_ul      |-> FormatSci2(thc[1].thc_per_ul),
            thc_per_ml      |-> FormatSci2(thc[1].thc_per_ml),
            status          |-> rec[1].recommendation.status,
            range           |-> rec[1].recommendation.range,
            water           |-> rec[1].recommendation.water,
            pond            |-> rec[1].recommendation.pond,
            feeding         |-> rec[1].recommendation.feeding]>>
    /\ page' = page \cup {"download"}
    /\ pc' = "done"
    /\ UNCHANGED <<widgets, model_cache, model, results, annotated_image,
                   total_hemocytes, thc, metrics, rec, error, stages, calc_args, rec_arg,
                   call_vars>>

Next ==
    \/ EditModelPath
    \/ MoveSlider
    \/ UploadImage
    \/ RemoveImage
    \/ CheckUpload
    \/ LoadModelOk
    \/ LoadModelFail
    \/ LoadModelCached
    \/ CheckModel
    \/ RunInferenceOk
    \/ RunInferenceRaises
    \/ DrawBoxes
    \/ CountDetections
    \/ CalculateTHC
    \/ GetRecommendation
    \/ ExportResults

\* the application: script runs driven by the user's interactions
Spec == Init /\ [][Next]_vars

(***************************************************************************)
(* Direct calls of the two functions, as a test would make them: any       *)
(* integer count and dilution factor, negative and zero included, and      *)
(* float concentrations at and next to the two limits.  A Python call      *)
(* either returns a value or raises; neither function has a raise          *)
(* statement and no operation in them can fail on these arguments.         *)
(***************************************************************************)
\* arguments of the direct calls range over -MaxNegArg..MaxCountArg and
\* -MaxNegArg..MaxDilutionArg
MaxNegArg == 1

MaxCountArg == 15

MaxDilutionArg == 10

\* probes lie within MaxOffset units in the last place of a limit
MaxOffset == 2

CountArgs == (0 - MaxNegArg)..MaxCountArg

DilutionArgs == (0 - MaxNegArg)..MaxDilutionArg

\* a - k for a small natural k <= a, limb by limb with borrow
RECURSIVE BigSubBorrow(_, _)
BigSubBorrow(a, k) ==
    IF k = 0 THEN a
    ELSE LET t     == Head(a) - k
             limb  == t % LimbBase
         IN  <<limb>> \o BigSubBorrow(Tail(a), (limb - t) \div LimbBase)

BigSubSmall(a, k) == BigNorm(BigSubBorrow(a, k))

\* the float base + off * 2^-fb, for an int base >= 1
FloatNear(base, fb, off) ==
    LET b == BigShiftLeft(BigOfNat(base), fb)
    IN  [sign |-> 1,
         mag  |-> BigShiftLeft(IF off >= 0 THEN BigAddSmall(b, off)
                               ELSE BigSubSmall(b, 0 - off),
                               FracBits - fb)]

FloatNeg(x) == [sign |-> 0 - x.sign, mag |-> x.mag]

\* floats in [2^19, 2^20) are 2^-33 apart, floats in [2^23, 2^24) 2^-29;
\* 1.0e7 + 53687 * 2^-29 is the float 10000000.0001
PositiveProbes ==
    {FloatNear(1000000, 33, o) : o \in (0 - MaxOffset)..MaxOffset}
    \cup {FloatNear(10000000, 29, o) : o \in ((0 - MaxOffset)..MaxOffset) \cup {53687}}
    \cup {[sign |-> 1, mag |-> BigOfNat(o)] : o \in 0..MaxOffset}
    \cup {FloatOfInt(1), FloatOfInt(5000000), FloatOfInt(1000000000)}

Probes == PositiveProbes \cup {FloatNeg(v) : v \in PositiveProbes}

\* get_recommendation(thc_value) called: the record of the call
RecommendCall(thc_value) ==
    [fn        |-> "get_recommendation",
     thc_value |-> thc_value,
     outcome   |-> "returned",
     value     |-> get_recommendation(thc_value)]

\* calculate_thc(count, dilution_factor) called, and get_recommendation
\* called on the cells/mL value it returned
CalculateCall(c, d) ==
    LET value == calculate_thc(c, d)
    IN  [fn              |-> "calculate_thc",
         count           |-> c,
         dilution_factor |-> d,
         outcome         |-> "returned",
         value           |-> value,
         then            |-> RecommendCall(value.thc_per_ml)]

\* a test calls calculate_thc, or calls it a second time to compare
CallCalculate ==
    /\ prev = <<>>
    /\ \E c \in CountArgs, d \in DilutionArgs : ret' = <<CalculateCall(c, d)>>
    /\ prev' = IF ret # <<>> /\ ret[1].fn = "calculate_thc" THEN ret ELSE <<>>
    /\ UNCHANGED app_vars

\* a test calls get_recommendation on a probe
CallRecommend ==
    /\ prev = <<>>
    /\ \E v \in Probes : ret' = <<RecommendCall(v)>>
    /\ prev' = <<>>
    /\ UNCHANGED app_vars

\* the test is over, the next one starts
NextTest ==
    /\ prev # <<>>
    /\ ret' = <<>>
    /\ prev' = <<>>
    /\ UNCHANGED app_vars

CallNext == CallCalculate \/ CallRecommend \/ NextTest

\* the two functions called directly
CallSpec == Init /\ [][CallNext]_vars

(***************************************************************************)
(* The properties.  The limits, intervals and error kinds below are those  *)
(* of the specification document, written independently of the code above. *)
(***************************************************************************)
Categories == {"low", "medium", "high"}

Rank == [low |-> 1, medium |-> 2, high |-> 3]

Zero == FloatOfInt(0)

IsNegative(v) == FloatLess(v, Zero)

\* magnitudes of 1.0e6 and 1.0e7 cells/mL
Mag1e6 == BigShiftLeft(BigOfNat(10 ^ 6), FracBits)

Mag1e7 == BigShiftLeft(BigOfNat(10 ^ 7), FracBits)

\* the interval of a category, for the magnitude m of a value >= 0:
\* low [0, 1.0e6), medium [1.0e6, 1.0e7], high (1.0e7, +oo)
InInterval(c, m) ==
    IF c = "low" THEN BigLess(m, Mag1e6)
    ELSE IF c = "medium" THEN BigLeq(Mag1e6, m) /\ BigLeq(m, Mag1e7)
    ELSE BigLess(Mag1e7, m)

\* the get_recommendation and calculate_thc calls recorded in the state
RecCallsOf(r) ==
    IF r = <<>> THEN {}
    ELSE IF r[1].fn = "get_recommendation" THEN {r[1]}
    ELSE {r[1].then}

RecCalls == RecCallsOf(ret) \cup RecCallsOf(prev)

CalcCallsOf(r) ==
    IF r = <<>> THEN {}
    ELSE IF r[1].fn = "calculate_thc" THEN {r[1]}
    ELSE {}

CalcCalls == CalcCallsOf(ret) \cup CalcCallsOf(prev)

\* m is the binary64 nearest to the exact magnitude n, ties to even
CorrectlyRounded(m, n) ==
    LET s == BigBitLen(n) - MantBits
    IN  IF s <= 0 THEN m = n
        ELSE LET h    == BigShiftLeft(<<1>>, s)
                 twom == BigMulSmall(m, 2)
                 twon == BigMulSmall(n, 2)
                 q    == BigShiftRight(m, s)
             IN  /\ BigShiftLeft(q, s) = m
                 /\ BigLeq(twom, BigAdd(twon, h))
                 /\ BigLeq(twon, BigAdd(twom, h))
                 /\ (twom = BigAdd(twon, h) \/ twon = BigAdd(twom, h))
                       => q[1] % 2 = 0

\* 71.42857142857 * 10^11 and 10^11
ChamberDecimal == <<2857, 5714, 1428, 7>>

Big1e11 == BigMulSmall(BigMulSmall(BigOfNat(1000), 10 ^ 4), 10 ^ 4)

BigTimes1e11(a) == BigMulSmall(BigMulSmall(BigMulSmall(a, 1000), 10 ^ 4), 10 ^ 4)

\* the float x is the binary64 nearest to the decimal 71.42857142857
IsChamberLiteral(x) ==
    LET a == BigMulSmall(BigTimes1e11(x.mag), 2)
        b == BigMulSmall(BigShiftLeft(ChamberDecimal, FracBits), 2)
    IN  /\ x.sign = 1
        /\ BigBitLen(x.mag) = MantBits
        /\ BigLeq(a, BigAdd(b, Big1e11))
        /\ BigLeq(b, BigAdd(a, Big1e11))

\* C1: get_recommendation keeps the boundary policy: a value v with
\* 0 <= v < 1.0e6 is low, exactly 1.0e6 is medium, 1.0e6 <= v <= 1.0e7
\* (exactly 1.0e7 included) is medium, v > 1.0e7 is high.
C1_BoundaryPolicy ==
    \A r \in RecCalls :
        ~IsNegative(r.thc_value) =>
            LET m   == r.thc_value.mag
                cat == r.value.category
            IN  /\ r.outcome = "returned"
                /\ BigLess(m, Mag1e6) => cat = "low"
                /\ m = Mag1e6 => cat = "medium"
                /\ m = Mag1e7 => cat = "medium"
                /\ (BigLeq(Mag1e6, m) /\ BigLeq(m, Mag1e7)) => cat = "medium"
                /\ BigLess(Mag1e7, m) => cat = "high"

\* get_recommendation(1.0e7) returned medium
C1_Witness ==
    /\ ret # <<>>
    /\ ret[1].fn = "get_recommendation"
    /\ ret[1].thc_value = [sign |-> 1, mag |-> Mag1e7]
    /\ ret[1].value.category = "medium"

\* C2: every call of calculate_thc with a negative count or a dilution
\* factor <= 0 fails with InvalidInput and returns no numeric result.
C2_RejectsMalformed ==
    \A r \in CalcCalls :
        (r.count < 0 \/ r.dilution_factor <= 0) => r.outcome = "InvalidInput"

\* C3: when the model cannot be loaded or inference fails, the run
\* surfaces the error and produces no count, concentration, category,
\* guidance or export record, and a run on an uploaded image that ends
\* without an export record has surfaced such an error.
C3_NoPartialResult ==
    /\ error # <<>> =>
          /\ error[1] \in {"ModelLoadError", "InferenceError"}
          /\ page \cap {"error", "exception"} # {}
          /\ page \cap {"metrics", "images", "recommendation", "download"} = {}
          /\ total_hemocytes = <<>>
          /\ thc = <<>>
          /\ metrics = <<>>
          /\ rec = <<>>
          /\ results_text = <<>>
          /\ calc_args = <<>>
          /\ rec_arg = <<>>
          /\ pc \in {"if_model", "done"}
    /\ (pc = "if_model" /\ model = <<>>) => error = <<"ModelLoadError">>
    /\ (pc = "done" /\ uploaded_image # <<>> /\ results_text = <<>>) => error # <<>>

\* a run ended by a failed inference
C3_Witness ==
    /\ pc = "done"
    /\ model = <<"YOLO">>
    /\ error = <<"InferenceError">>

\* C4: get_recommendation fails with InvalidInput for every negative
\* concentration and returns no category for it.
C4_RejectsNegative ==
    \A r \in RecCalls :
        IsNegative(r.thc_value) => r.outcome = "InvalidInput"

\* C5: for every concentration v >= 0 get_recommendation returns exactly
\* one of low, medium, high, the one whose interval holds v (the intervals
\* neither overlap nor leave a gap), with the static record of that
\* category: the entry of the reference table in the category's colour.
C5_TotalExclusive ==
    \A r \in RecCalls :
        ~IsNegative(r.thc_value) =>
            LET m   == r.thc_value.mag
                cat == r.value.category
                got == r.value.recommendation
            IN  /\ r.outcome = "returned"
                /\ cat \in Categories
                /\ {c \in Categories : InInterval(c, m)} = {cat}
                /\ DOMAIN got = {"range", "status", "water", "pond", "feeding"}
                /\ \E i \in 1..Len(thc_ranges) :
                      /\ thc_ranges[i].color = status_color[cat]
                      /\ \A f \in DOMAIN got : got[f] = thc_ranges[i][f]

\* get_recommendation(10000000.0001) returned high with the high record
C5_Witness ==
    /\ ret # <<>>
    /\ ret[1].fn = "get_recommendation"
    /\ ret[1].thc_value = FloatNear(10000000, 29, 53687)
    /\ ret[1].value.category = "high"
    /\ ret[1].value.recommendation.range = ">1.0x10^7 cells/mL"

PipelineOrder == <<"detector", "count", "calculator", "classifier">>

\* C7: a run whose detection returned n boxes emits count = n, the
\* concentration calculate_thc(n, d) and the category and guidance of the
\* cells/mL value, the stages running in the order detector, count,
\* calculator, classifier; n = 14 and d = 2 give medium.
C7_EndToEnd ==
    /\ \E k \in 0..Len(PipelineOrder) : stages = SubSeq(PipelineOrder, 1, k)
    /\ total_hemocytes # <<>> =>
          /\ results # <<>>
          /\ total_hemocytes[1] = Len(results[1])
    /\ thc # <<>> =>
          /\ total_hemocytes # <<>>
          /\ thc[1] = calculate_thc(total_hemocytes[1], dilution_factor)
    /\ rec # <<>> =>
          /\ thc # <<>>
          /\ rec[1] = get_recommendation(thc[1].thc_per_ml)
          /\ (total_hemocytes[1] = 14 /\ dilution_factor = 2)
                => rec[1].category = "medium"
    /\ results_text # <<>> =>
          /\ rec # <<>>
          /\ results_text[1].total_hemocytes = total_hemocytes[1]
          /\ results_text[1].dilution_factor = dilution_factor
          /\ results_text[1].thc_per_ul = FormatSci2(thc[1].thc_per_ul)
          /\ results_text[1].thc_per_ml = FormatSci2(thc[1].thc_per_ml)
          /\ (total_hemocytes[1] = 14 /\ dilution_factor = 2) =>
                /\ results_text[1].thc_per_ul = [sign |-> 1, digits |-> 200, exp |-> 3]
                /\ results_text[1].thc_per_ml = [sign |-> 1, digits |-> 200, exp |-> 6]
          /\ results_text[1].status = rec[1].recommendation.status
          /\ results_text[1].range = rec[1].recommendation.range

\* the run on 14 boxes at dilution factor 2 is complete and medium
C7_Witness ==
    /\ pc = "done"
    /\ results_text # <<>>
    /\ total_hemocytes = <<14>>
    /\ dilution_factor = 2
    /\ rec[1].category = "medium"
    /\ stages = PipelineOrder

\* C8: in every run the arguments of calculate_thc are the length of the
\* box sequence (an integer >= 0) and the slider value, an integer in
\* 1..10, and the argument of get_recommendation is never negative.
C8_ValidArguments ==
    /\ calc_args # <<>> =>
          /\ results # <<>>
          /\ calc_args[1].count = Len(results[1])
          /\ calc_args[1].count \in Nat
          /\ calc_args[1].dilution_factor = dilution_factor
          /\ calc_args[1].dilution_factor \in 1..10
    /\ rec_arg # <<>> =>
          /\ calc_args # <<>>
          /\ ~IsNegative(rec_arg[1])
          /\ rec_arg[1].sign = 1

\* both functions were reached, with an empty detection at dilution 10
C8_Witness ==
    /\ calc_args = <<[count |-> 0, dilution_factor |-> 10]>>
    /\ rec_arg = <<Zero>>

CallIsValid(r) == r.count >= 0 /\ r.dilution_factor > 0

\* C9: for counts c1 <= c2 (>= 0) and dilution factors d1 <= d2 (> 0) the
\* category of calculate_thc(c1, d1) cells/mL is never higher than the
\* category of calculate_thc(c2, d2) cells/mL.
C9_Monotone ==
    (prev # <<>> /\ ret # <<>> /\ ret[1].fn = "calculate_thc") =>
        LET a == prev[1]
            b == ret[1]
        IN  (/\ CallIsValid(a)
             /\ CallIsValid(b)
             /\ a.count <= b.count
             /\ a.dilution_factor <= b.dilution_factor)
            => Rank[a.then.value.category] <= Rank[b.then.value.category]

\* calculate_thc(1, 1) classified low, then calculate_thc(15, 10) high
C9_Witness ==
    /\ prev # <<>>
    /\ ret # <<>>
    /\ prev[1].count = 1
    /\ prev[1].dilution_factor = 1
    /\ prev[1].then.value.category = "low"
    /\ ret[1].count = 15
    /\ ret[1].dilution_factor = 10
    /\ ret[1].then.value.category = "high"

\* p * 71.42857142857 * 1000 * 10^11, exactly
DecimalPerMl(p) == BigMulSmall(BigMulSmall(ChamberDecimal, p), 1000)

\* the category of the exact decimal value of p * 71.42857142857 * 1000
DecimalCategory(p) ==
    IF BigLess(DecimalPerMl(p), BigTimes1e11(BigOfNat(10 ^ 6))) THEN "low"
    ELSE IF BigLeq(DecimalPerMl(p), BigTimes1e11(BigOfNat(10 ^ 7))) THEN "medium"
    ELSE "high"

\* C10: the category a run emits depends only on p = count *
\* dilution_factor: low exactly when p <= 14, medium exactly when
\* 15 <= p <= 140, high exactly when p >= 141, as for the exact decimal
\* 71.42857142857; p = 14 is strictly below 1.0e6 and p = 140 strictly
\* below 1.0e7, where p * 1000 / 0.014 = p * 10^6 / 14 is exactly the limit.
C10_ProductThresholds ==
    rec # <<>> =>
        LET p   == total_hemocytes[1] * dilution_factor
            cat == rec[1].category
            ml  == thc[1].thc_per_ml
        IN  /\ cat = "low" <=> p <= 14
            /\ cat = "medium" <=> (15 <= p /\ p <= 140)
            /\ cat = "high" <=> p >= 141
            /\ cat = DecimalCategory(p)
            /\ p = 14 =>
                  /\ BigLess(ml.mag, Mag1e6)
                  /\ BigLess(DecimalPerMl(p), BigTimes1e11(BigOfNat(10 ^ 6)))
                  /\ (p * 10 ^ 6) % 14 = 0 /\ (p * 10 ^ 6) \div 14 = 10 ^ 6
            /\ p = 140 =>
                  /\ BigLess(ml.mag, Mag1e7)
                  /\ BigLess(DecimalPerMl(p), BigTimes1e11(BigOfNat(10 ^ 7)))
                  /\ (p * 10 ^ 6) % 14 = 0 /\ (p * 10 ^ 6) \div 14 = 10 ^ 7

\* 14 boxes at dilution factor 10: p = 140 is medium, below 1.0e7
C10_Witness ==
    /\ rec # <<>>
    /\ total_hemocytes = <<14>>
    /\ dilution_factor = 10
    /\ rec[1].category = "medium"
    /\ BigLess(thc[1].thc_per_ml.mag, Mag1e7)
====
